---- MODULE Spec2Model ----
(***************************************************************************)
(* Wire codec of valence: the command-graph Node and its range parsers     *)
(* (src/protocol/node.rs) and the entity field types (src/entity/types.rs).*)
(*                                                                         *)
(* Representation.  A byte is a number in 0..255 and a stream is a         *)
(* sequence of bytes.  A fixed-width machine word is its bit pattern cut   *)
(* into 16-bit limbs, most significant first: an i32, u32 or f32 is        *)
(* <<hi, lo>>, an i64 is four limbs.  Casts between i32 and u32 keep the   *)
(* bit pattern and therefore keep the limbs.  A string is the sequence of  *)
(* its Unicode code points.  Option<T> is None or Some(v).                 *)
(***************************************************************************)
EXTENDS Integers, Sequences, FiniteSets, TLC

VARIABLES
    pc,             \* position of the call under way
    value,          \* the value handed to new / encode (self)
    writer,         \* the writer w: bytes written so far
    wlog,           \* history: the fields encode wrote, in order
    input,          \* the slice handed to decode
    reader,         \* the reader r: bytes of input not yet consumed
    rlog,           \* history: the fields decode read, in order
    flags,          \* decode's local `flags`
    redirect_node,  \* decode's local `redirect_node`
    children,       \* decode's local `children`
    name,           \* decode's `name` of the variant under construction
    parser,         \* decode's `parser` of the Argument under construction
    obj,            \* the OptionalInt that new or decode produced
    result,         \* what the last call returned
    player_count,   \* Game.player_count
    clients,        \* server.clients, in slot order
    entities,       \* server.entities: the UUIDs that have an entity
    joined,         \* connections accepted so far
    left            \* connections closed by the peer so far

vars == <<pc, value, writer, wlog, input, reader, rlog, flags,
          redirect_node, children, name, parser, obj, result,
          player_count, clients, entities, joined, left>>

codec == <<value, writer, wlog, input, reader, rlog, flags,
           redirect_node, children, name, parser, obj, result>>
server == <<player_count, clients, entities, joined, left>>

(***************************************************************************)
(* Bounds of the model.                                                    *)
(***************************************************************************)
MaxChildren == 2
MaxLevel == 2
MaxJoins == 12
MaxLeaves == 2
MaxNew == 2

\* the example server is not running
ServerIdle ==
    /\ player_count = 0
    /\ clients = <<>>
    /\ entities = {}
    /\ joined = 0
    /\ left = 0

(***************************************************************************)
(* Option, Result and bit operations.                                      *)
(***************************************************************************)
None == [some |-> FALSE]
Some(v) == [some |-> TRUE, v |-> v]

Ok(v, rest) == [ok |-> TRUE, val |-> v, rest |-> rest]
Err == [ok |-> FALSE, val |-> <<>>, rest |-> <<>>]

Ret(v) == [ok |-> TRUE, val |-> v]
Fail == [ok |-> FALSE]

Nothing == [tag |-> "nothing"]

RECURSIVE BitAnd(_, _)
BitAnd(a, b) ==
    IF a = 0 \/ b = 0 THEN 0
    ELSE (a % 2) * (b % 2) + 2 * BitAnd(a \div 2, b \div 2)

RECURSIVE BitOr(_, _)
BitOr(a, b) ==
    IF a = 0 THEN b
    ELSE IF b = 0 THEN a
    ELSE (IF a % 2 = 1 \/ b % 2 = 1 THEN 1 ELSE 0) + 2 * BitOr(a \div 2, b \div 2)

BoolAsU8(b) == IF b THEN 1 ELSE 0

RECURSIVE Concat(_)
Concat(ss) == IF ss = <<>> THEN <<>> ELSE Head(ss) \o Concat(Tail(ss))

(***************************************************************************)
(* Primitive codecs of the protocol module.                                *)
(***************************************************************************)
U32_MAX == <<65535, 65535>>

FromUsize(n) == <<n \div 65536, n % 65536>>

Shr7(v) == <<v[1] \div 128, (v[2] \div 128) + (v[1] % 128) * 512>>

\* VarInt: the low seven bits of the unsigned value per byte, least
\* significant group first, bit 7 set on every byte but the last.
RECURSIVE VarInt_encode(_)
VarInt_encode(val) ==
    IF val[1] = 0 /\ val[2] < 128 THEN <<val[2]>>
    ELSE <<(val[2] % 128) + 128>> \o VarInt_encode(Shr7(val))

\* the seven-bit groups of a VarInt at the head of r: at most five bytes
RECURSIVE VarIntGroups(_, _)
VarIntGroups(r, i) ==
    IF i = 5 \/ r = <<>> THEN Err
    ELSE IF Head(r) < 128 THEN Ok(<<Head(r)>>, Tail(r))
    ELSE LET more == VarIntGroups(Tail(r), i + 1)
         IN  IF more.ok THEN Ok(<<Head(r) % 128>> \o more.val, more.rest) ELSE Err

VarIntCompose(g) ==
    LET G(i) == IF i <= Len(g) THEN g[i] ELSE 0
    IN  << (G(3) \div 4) + G(4) * 32 + (G(5) % 16) * 4096,
           G(1) + G(2) * 128 + (G(3) % 4) * 16384 >>

VarInt_decode(r) ==
    LET g == VarIntGroups(r, 0)
    IN  IF g.ok THEN Ok(VarIntCompose(g.val), g.rest) ELSE Err

u8_encode(b) == <<b>>

bool_encode(b) == <<BoolAsU8(b)>>

bool_decode(r) ==
    IF r = <<>> THEN Err
    ELSE IF Head(r) > 1 THEN Err
    ELSE Ok(Head(r) = 1, Tail(r))

\* fixed-width big-endian words (i32, f32: two limbs; i64: four limbs)
RECURSIVE Fixed_encode(_)
Fixed_encode(limbs) ==
    IF limbs = <<>> THEN <<>>
    ELSE <<Head(limbs) \div 256, Head(limbs) % 256>> \o Fixed_encode(Tail(limbs))

RECURSIVE Fixed_decode(_, _)
Fixed_decode(r, nlimbs) ==
    IF nlimbs = 0 THEN Ok(<<>>, r)
    ELSE IF Len(r) < 2 THEN Err
    ELSE LET more == Fixed_decode(Tail(Tail(r)), nlimbs - 1)
         IN  IF more.ok THEN Ok(<<r[1] * 256 + r[2]>> \o more.val, more.rest) ELSE Err

f32_encode(x) == Fixed_encode(x)
f32_decode(r) == Fixed_decode(r, 2)
i32_encode(x) == Fixed_encode(x)
i32_decode(r) == Fixed_decode(r, 2)
i64_encode(x) == Fixed_encode(x)
i64_decode(r) == Fixed_decode(r, 4)

\* Option<T> as the target of Decode::decode in a presence-gated read
Option_decode(x) == IF x.ok THEN Ok(Some(x.val), x.rest) ELSE Err

\* UTF-8
Utf8Char(c) ==
    IF c < 128 THEN <<c>>
    ELSE IF c < 2048 THEN <<192 + (c \div 64), 128 + (c % 64)>>
    ELSE IF c < 65536 THEN <<224 + (c \div 4096), 128 + ((c \div 64) % 64), 128 + (c % 64)>>
    ELSE <<240 + (c \div 262144), 128 + ((c \div 4096) % 64),
           128 + ((c \div 64) % 64), 128 + (c % 64)>>

RECURSIVE Utf8_encode(_)
Utf8_encode(s) == IF s = <<>> THEN <<>> ELSE Utf8Char(Head(s)) \o Utf8_encode(Tail(s))

IsCont(b) == b >= 128 /\ b < 192

RECURSIVE Utf8_decode(_)
Utf8_decode(b) ==
    IF b = <<>> THEN Ok(<<>>, <<>>)
    ELSE LET b1 == b[1]
             n == IF b1 < 128 THEN 1
                  ELSE IF b1 >= 194 /\ b1 < 224 THEN 2
                  ELSE IF b1 >= 224 /\ b1 < 240 THEN 3
                  ELSE IF b1 >= 240 /\ b1 < 245 THEN 4
                  ELSE 0
         IN  IF n = 0 \/ Len(b) < n THEN Err
             ELSE IF \E i \in 2..n : ~IsCont(b[i]) THEN Err
             ELSE LET c == CASE n = 1 -> b1
                             [] n = 2 -> (b1 - 192) * 64 + (b[2] - 128)
                             [] n = 3 -> (b1 - 224) * 4096 + (b[2] - 128) * 64 + (b[3] - 128)
                             [] n = 4 -> (b1 - 240) * 262144 + (b[2] - 128) * 4096
                                         + (b[3] - 128) * 64 + (b[4] - 128)
                      bad == \/ n = 3 /\ (c < 2048 \/ (c >= 55296 /\ c < 57344))
                             \/ n = 4 /\ (c < 65536 \/ c > 1114111)
                      more == Utf8_decode(SubSeq(b, n + 1, Len(b)))
                  IN  IF bad \/ ~more.ok THEN Err
                      ELSE Ok(<<c>> \o more.val, <<>>)

\* BoundedString<0, 32767>: VarInt byte length, then the UTF-8 bytes; the
\* character count must lie in [MIN, MAX]
NAME_MIN == 0
NAME_MAX == 32767

BoundedString_encode(s) ==
    IF Len(s) < NAME_MIN \/ Len(s) > NAME_MAX THEN Err
    ELSE LET b == Utf8_encode(s)
         IN  Ok(VarInt_encode(FromUsize(Len(b))) \o b, <<>>)

BoundedString_decode(r) ==
    LET len == VarInt_decode(r)
    IN  IF ~len.ok THEN Err
        ELSE IF len.val[1] # 0 \/ len.val[2] > Len(len.rest) THEN Err
        ELSE LET n == len.val[2]
                 s == Utf8_decode(SubSeq(len.rest, 1, n))
             IN  IF ~s.ok THEN Err
                 ELSE IF Len(s.val) < NAME_MIN \/ Len(s.val) > NAME_MAX THEN Err
                 ELSE Ok(s.val, SubSeq(len.rest, n + 1, Len(len.rest)))

\* Ident: a namespaced identifier, carried on the wire as a string
Ident_encode(id) == BoundedString_encode(id)
Ident_decode(r) == BoundedString_decode(r)

\* Vec<VarInt>: VarInt element count, then the elements
RECURSIVE VarIntSeq_encode(_)
VarIntSeq_encode(v) ==
    IF v = <<>> THEN <<>> ELSE VarInt_encode(Head(v)) \o VarIntSeq_encode(Tail(v))

Vec_encode(v) == VarInt_encode(FromUsize(Len(v))) \o VarIntSeq_encode(v)

RECURSIVE VarIntSeq_decode(_, _)
VarIntSeq_decode(r, n) ==
    IF n = 0 THEN Ok(<<>>, r)
    ELSE LET x == VarInt_decode(r)
         IN  IF ~x.ok THEN Err
             ELSE LET more == VarIntSeq_decode(x.rest, n - 1)
                  IN  IF more.ok THEN Ok(<<x.val>> \o more.val, more.rest) ELSE Err

\* a count that is negative, or larger than the bytes left, cannot be read
Vec_decode(r) ==
    LET len == VarInt_decode(r)
    IN  IF ~len.ok THEN Err
        ELSE IF len.val[1] # 0 \/ len.val[2] > Len(len.rest) THEN Err
        ELSE VarIntSeq_decode(len.rest, len.val[2])

(***************************************************************************)
(* Range parsers: src/protocol/node.rs, lines 139-248.                     *)
(***************************************************************************)
\* fault injection: the bounds are written max first
BrigadierFloat_encode_max_first(self) ==
    LET fl == BitOr(BoolAsU8(self.min.some) * 1, BoolAsU8(self.max.some) * 2)
    IN  u8_encode(fl)
        \o (IF self.max.some THEN f32_encode(self.max.v) ELSE <<>>)
        \o (IF self.min.some THEN f32_encode(self.min.v) ELSE <<>>)

BrigadierFloat_encode(self) ==
    LET fl == BitOr(BoolAsU8(self.min.some) * 1, BoolAsU8(self.max.some) * 2)
    IN  u8_encode(fl)
        \o (IF self.min.some THEN f32_encode(self.min.v) ELSE <<>>)
        \o (IF self.max.some THEN f32_encode(self.max.v) ELSE <<>>)

BrigadierFloat_decode(r) ==
    IF r = <<>> THEN Err
    ELSE LET fl == Head(r)
             min == IF BitAnd(fl, 1) # 0 THEN Option_decode(f32_decode(Tail(r)))
                    ELSE Ok(None, Tail(r))
         IN  IF ~min.ok THEN Err
             ELSE LET max == IF BitAnd(fl, 2) # 0 THEN Option_decode(f32_decode(min.rest))
                             ELSE Ok(None, min.rest)
                  IN  IF ~max.ok THEN Err
                      ELSE Ok([min |-> min.val, max |-> max.val], max.rest)

BrigadierInteger_encode(self) ==
    LET fl == BitOr(BoolAsU8(self.min.some) * 1, BoolAsU8(self.max.some) * 2)
    IN  u8_encode(fl)
        \o (IF self.min.some THEN i32_encode(self.min.v) ELSE <<>>)
        \o (IF self.max.some THEN i32_encode(self.max.v) ELSE <<>>)

BrigadierInteger_decode(r) ==
    IF r = <<>> THEN Err
    ELSE LET fl == Head(r)
             min == IF BitAnd(fl, 1) # 0 THEN Option_decode(i32_decode(Tail(r)))
                    ELSE Ok(None, Tail(r))
         IN  IF ~min.ok THEN Err
             ELSE LET max == IF BitAnd(fl, 2) # 0 THEN Option_decode(i32_decode(min.rest))
                             ELSE Ok(None, min.rest)
                  IN  IF ~max.ok THEN Err
                      ELSE Ok([min |-> min.val, max |-> max.val], max.rest)

BrigadierLong_encode(self) ==
    LET fl == BitOr(BoolAsU8(self.min.some) * 1, BoolAsU8(self.max.some) * 2)
    IN  u8_encode(fl)
        \o (IF self.min.some THEN i64_encode(self.min.v) ELSE <<>>)
        \o (IF self.max.some THEN i64_encode(self.max.v) ELSE <<>>)

\* fault injection: bit 0 gates max and bit 1 gates min
BrigadierLong_decode_bits_swapped(r) ==
    IF r = <<>> THEN Err
    ELSE LET fl == Head(r)
             min == IF BitAnd(fl, 2) # 0 THEN Option_decode(i64_decode(Tail(r)))
                    ELSE Ok(None, Tail(r))
         IN  IF ~min.ok THEN Err
             ELSE LET max == IF BitAnd(fl, 1) # 0 THEN Option_decode(i64_decode(min.rest))
                             ELSE Ok(None, min.rest)
                  IN  IF ~max.ok THEN Err
                      ELSE Ok([min |-> min.val, max |-> max.val], max.rest)

BrigadierLong_decode(r) ==
    IF r = <<>> THEN Err
    ELSE LET fl == Head(r)
             min == IF BitAnd(fl, 1) # 0 THEN Option_decode(i64_decode(Tail(r)))
                    ELSE Ok(None, Tail(r))
         IN  IF ~min.ok THEN Err
             ELSE LET max == IF BitAnd(fl, 2) # 0 THEN Option_decode(i64_decode(min.rest))
                             ELSE Ok(None, min.rest)
                  IN  IF ~max.ok THEN Err
                      ELSE Ok([min |-> min.val, max |-> max.val], max.rest)

\* Parser: a VarInt tag, then the payload of the variant
ParserId(tag) ==
    CASE tag = "BrigadierBool" -> 0
      [] tag = "BrigadierFloat" -> 1
      [] tag = "BrigadierInteger" -> 3
      [] tag = "BrigadierLong" -> 4

Parser_encode(p) ==
    VarInt_encode(FromUsize(ParserId(p.tag)))
    \o (CASE p.tag = "BrigadierBool" -> bool_encode(p.v.b)
          [] p.tag = "BrigadierFloat" -> BrigadierFloat_encode(p.v)
          [] p.tag = "BrigadierInteger" -> BrigadierInteger_encode(p.v)
          [] p.tag = "BrigadierLong" -> BrigadierLong_encode(p.v))

Parser_decode(r) ==
    LET id == VarInt_decode(r)
    IN  IF ~id.ok THEN Err
        ELSE LET tag == CASE id.val = <<0, 0>> -> "BrigadierBool"
                          [] id.val = <<0, 1>> -> "BrigadierFloat"
                          [] id.val = <<0, 3>> -> "BrigadierInteger"
                          [] id.val = <<0, 4>> -> "BrigadierLong"
                          [] OTHER -> "invalid"
                 b == bool_decode(id.rest)
                 x == CASE tag = "BrigadierBool" ->
                                IF b.ok THEN Ok([b |-> b.val], b.rest) ELSE Err
                        [] tag = "BrigadierFloat" -> BrigadierFloat_decode(id.rest)
                        [] tag = "BrigadierInteger" -> BrigadierInteger_decode(id.rest)
                        [] tag = "BrigadierLong" -> BrigadierLong_decode(id.rest)
                        [] OTHER -> Err
             IN  IF ~x.ok THEN Err ELSE Ok([tag |-> tag, v |-> x.val], x.rest)

(***************************************************************************)
(* Node: src/protocol/node.rs, lines 9-125.                                *)
(***************************************************************************)
Root == [tag |-> "Root"]
Literal(n) == [tag |-> "Literal", name |-> n]
Argument(n, p, st) ==
    [tag |-> "Argument", name |-> n, parser |-> p, suggestions_type |-> st]

Node(ch, data, is_executable, redirect) ==
    [children |-> ch, data |-> data, is_executable |-> is_executable,
     redirect_node |-> redirect]

\* the values the model encodes
Say == <<115, 97, 121>>
Names == {Say, <<233>>}
Idents == {<<97, 58, 98>>}
ChildIndices == {<<0, 1>>, <<0, 130>>}
RedirectIndices == {<<0, 0>>, <<0, 2>>}
OptionOf(S) == {None} \cup {Some(v) : v \in S}
NodeParsers ==
    << [tag |-> "BrigadierBool", v |-> [b |-> TRUE]],
       [tag |-> "BrigadierFloat", v |-> [min |-> Some(<<16256, 0>>), max |-> None]],
       [tag |-> "BrigadierInteger", v |-> [min |-> Some(<<0, 0>>), max |-> Some(<<65535, 65535>>)]],
       [tag |-> "BrigadierLong", v |-> [min |-> None, max |-> Some(<<0, 1, 2, 3>>)]] >>
ChildLists == UNION { [1..n -> ChildIndices] : n \in 0..MaxChildren }
NodeDatas ==
    {Root} \cup {Literal(n) : n \in Names}
    \cup {Argument(Say, NodeParsers[i], None) : i \in DOMAIN NodeParsers}
    \cup {Argument(n, NodeParsers[1], Some(id)) : n \in Names, id \in Idents}
    \cup {Argument(Say, NodeParsers[3], Some(id)) : id \in Idents}
Nodes ==
    {Node(c, d, e, rd) : c \in ChildLists, d \in NodeDatas,
                         e \in BOOLEAN, rd \in OptionOf(RedirectIndices)}

\* lines 29-43
Node_enum_id(self) ==
    CASE self.data.tag = "Root" -> 0
      [] self.data.tag = "Literal" -> 1
      [] self.data.tag = "Argument" -> 2

\* fault injection: the executable and redirect bits change places
Node_flags_swapped(self) ==
    BitOr(BitOr(BitOr(Node_enum_id(self),
                      BoolAsU8(self.is_executable) * 8),
                BoolAsU8(self.redirect_node.some) * 4),
          BoolAsU8(IF self.data.tag = "Argument"
                   THEN self.data.suggestions_type.some ELSE FALSE) * 16)

Node_flags(self) ==
    BitOr(BitOr(BitOr(Node_enum_id(self),
                      BoolAsU8(self.is_executable) * 4),
                BoolAsU8(self.redirect_node.some) * 8),
          BoolAsU8(IF self.data.tag = "Argument"
                   THEN self.data.suggestions_type.some ELSE FALSE) * 16)

Written(field, bytes) == [field |-> field, bytes |-> bytes]
Consumed(field, before, after) == [field |-> field, n |-> Len(before) - Len(after)]

\* the writes of a sequence of fallible field encoders, up to the first error
RECURSIVE WriteAll(_)
WriteAll(fs) ==
    IF fs = <<>> THEN [ok |-> TRUE, log |-> <<>>]
    ELSE IF ~Head(fs).res.ok THEN [ok |-> FALSE, log |-> <<>>]
    ELSE LET more == WriteAll(Tail(fs))
         IN  [ok |-> more.ok,
              log |-> <<Written(Head(fs).field, Head(fs).res.val)>> \o more.log]

RECURSIVE LogBytes(_)
LogBytes(log) == IF log = <<>> THEN <<>> ELSE Head(log).bytes \o LogBytes(Tail(log))

\* line 45: w.write_u8(flags)?
Node_encode_flags ==
    /\ pc = "enc_flags"
    /\ writer' = writer \o u8_encode(Node_flags(value))
    /\ wlog' = Append(wlog, Written("flags", u8_encode(Node_flags(value))))
    /\ pc' = "enc_children"
    /\ UNCHANGED <<server, value, input, reader, rlog, flags, redirect_node, children, name, parser, obj, result>>

\* line 46: self.children.encode(w)?
Node_encode_children ==
    /\ pc = "enc_children"
    /\ writer' = writer \o Vec_encode(value.children)
    /\ wlog' = Append(wlog, Written("children", Vec_encode(value.children)))
    /\ pc' = "enc_redirect"
    /\ UNCHANGED <<server, value, input, reader, rlog, flags, redirect_node, children, name, parser, obj, result>>

\* lines 48-50: if let Some(redirect_node) = self.redirect_node
Node_encode_redirect ==
    /\ pc = "enc_redirect"
    /\ IF value.redirect_node.some
       THEN /\ writer' = writer \o VarInt_encode(value.redirect_node.v)
            /\ wlog' = Append(wlog, Written("redirect_node",
                                            VarInt_encode(value.redirect_node.v)))
       ELSE UNCHANGED <<writer, wlog>>
    /\ pc' = "enc_data"
    /\ UNCHANGED <<server, value, input, reader, rlog, flags, redirect_node, children, name, parser, obj, result>>

\* fault injection: an Argument writes its parser before its name
NodeData_fields_parser_first(data) ==
    CASE data.tag = "Root" -> <<>>
      [] data.tag = "Literal" ->
            << [field |-> "name", res |-> BoundedString_encode(data.name)] >>
      [] data.tag = "Argument" ->
            << [field |-> "parser", res |-> Ok(Parser_encode(data.parser), <<>>)],
               [field |-> "name", res |-> BoundedString_encode(data.name)] >>
            \o (IF data.suggestions_type.some
                THEN << [field |-> "suggestions_type",
                         res |-> Ident_encode(data.suggestions_type.v)] >>
                ELSE <<>>)

\* lines 52-62: the fields of the variant, in the order they are written
NodeData_fields(data) ==
    CASE data.tag = "Root" -> <<>>
      [] data.tag = "Literal" ->
            << [field |-> "name", res |-> BoundedString_encode(data.name)] >>
      [] data.tag = "Argument" ->
            << [field |-> "name", res |-> BoundedString_encode(data.name)],
               [field |-> "parser", res |-> Ok(Parser_encode(data.parser), <<>>)] >>
            \o (IF data.suggestions_type.some
                THEN << [field |-> "suggestions_type",
                         res |-> Ident_encode(data.suggestions_type.v)] >>
                ELSE <<>>)

\* lines 52-64
Node_encode_data ==
    /\ pc = "enc_data"
    /\ LET wr == WriteAll(NodeData_fields(value.data))
       IN  /\ writer' = writer \o LogBytes(wr.log)
           /\ wlog' = wlog \o wr.log
           /\ pc' = IF wr.ok THEN "enc_done" ELSE "enc_err"
           /\ result' = IF wr.ok THEN Ret(<<>>) ELSE Fail
    /\ UNCHANGED <<server, value, input, reader, rlog, flags, redirect_node, children, name, parser, obj>>

\* the encoded bytes, whole or with another flags byte, are handed to decode:
\* every value of bits 0-5, and bytes with bits 6 and 7 set
FlagBytes == (0..63) \cup {67, 131, 255}

Deliver ==
    /\ pc = "enc_done"
    /\ input' = writer
    /\ reader' = writer
    /\ pc' = "dec_flags"
    /\ result' = Nothing
    /\ UNCHANGED <<server, value, writer, wlog, rlog, flags, redirect_node, children, name, parser, obj>>

DeliverOtherFlags ==
    /\ pc = "enc_done"
    /\ \E f \in FlagBytes \ {Head(writer)} :
          /\ input' = <<f>> \o Tail(writer)
          /\ reader' = <<f>> \o Tail(writer)
    /\ pc' = "dec_flags_raw"
    /\ result' = Nothing
    /\ UNCHANGED <<server, value, writer, wlog, rlog, flags, redirect_node, children, name, parser, obj>>

DecFail ==
    /\ pc' = "dec_err"
    /\ result' = Fail
    /\ UNCHANGED <<reader, rlog, flags, redirect_node, children, name, parser>>

\* line 70: let flags = r.read_u8()?; line 72
Node_decode_flags ==
    /\ pc \in {"dec_flags", "dec_flags_raw"}
    /\ IF reader = <<>> THEN DecFail
       ELSE /\ flags' = Head(reader)
            /\ reader' = Tail(reader)
            /\ rlog' = Append(rlog, Consumed("flags", reader, Tail(reader)))
            /\ pc' = "dec_redirect"
            /\ UNCHANGED <<redirect_node, children, name, parser, result>>
    /\ UNCHANGED <<server, value, writer, wlog, input, obj>>

\* fault injection: the redirect index is read whatever bit 3 is
Node_decode_redirect_unconditional ==
    /\ pc = "dec_redirect"
    /\ LET x == Option_decode(VarInt_decode(reader))
       IN  IF ~x.ok THEN DecFail
           ELSE /\ redirect_node' = x.val
                /\ reader' = x.rest
                /\ rlog' = Append(rlog, Consumed("redirect_node", reader, x.rest))
                /\ pc' = "dec_children"
                /\ UNCHANGED <<flags, children, name, parser, result>>
    /\ UNCHANGED <<server, value, writer, wlog, input, obj>>

\* lines 73-77
Node_decode_redirect ==
    /\ pc = "dec_redirect"
    /\ IF BitAnd(flags, 8) # 0
       THEN LET x == Option_decode(VarInt_decode(reader))
            IN  IF ~x.ok THEN DecFail
                ELSE /\ redirect_node' = x.val
                     /\ reader' = x.rest
                     /\ rlog' = Append(rlog, Consumed("redirect_node", reader, x.rest))
                     /\ pc' = "dec_children"
                     /\ UNCHANGED <<flags, children, name, parser, result>>
       ELSE /\ redirect_node' = None
            /\ pc' = "dec_children"
            /\ UNCHANGED <<reader, rlog, flags, children, name, parser, result>>
    /\ UNCHANGED <<server, value, writer, wlog, input, obj>>

\* line 79
Node_decode_children ==
    /\ pc = "dec_children"
    /\ LET x == Vec_decode(reader)
       IN  IF ~x.ok THEN DecFail
           ELSE /\ children' = x.val
                /\ reader' = x.rest
                /\ rlog' = Append(rlog, Consumed("children", reader, x.rest))
                /\ pc' = "dec_data"
                /\ UNCHANGED <<flags, redirect_node, name, parser, result>>
    /\ UNCHANGED <<server, value, writer, wlog, input, obj>>

\* lines 99-104: Ok(Node { children, data, is_executable, redirect_node })
Node_decode_return(data) ==
    /\ result' = Ret(Node(children, data, BitAnd(flags, 4) # 0, redirect_node))
    /\ pc' = "dec_ok"

\* fault injection: a variant tag that is neither Literal nor Argument is a Root
Node_decode_data_default_root ==
    /\ pc = "dec_data"
    /\ LET enum_id == BitAnd(flags, 3)
       IN  IF enum_id \in {1, 2}
           THEN /\ pc' = "dec_name"
                /\ UNCHANGED result
           ELSE Node_decode_return(Root)
    /\ UNCHANGED <<server, value, writer, wlog, input, reader, rlog, flags, redirect_node,
                   children, name, parser, obj>>

\* lines 81-83 and 96: let enum_id = flags & 0x03; match enum_id
Node_decode_data ==
    /\ pc = "dec_data"
    /\ LET enum_id == BitAnd(flags, 3)
       IN  CASE enum_id = 0 ->
                    /\ Node_decode_return(Root)
                    /\ UNCHANGED <<reader, rlog, flags, redirect_node, children, name, parser>>
             [] enum_id \in {1, 2} ->
                    /\ pc' = "dec_name"
                    /\ UNCHANGED <<reader, rlog, flags, redirect_node, children, name,
                                   parser, result>>
             [] OTHER -> DecFail
    /\ UNCHANGED <<server, value, writer, wlog, input, obj>>

\* lines 84-86 and 88: name: Decode::decode(r)?
Node_decode_name ==
    /\ pc = "dec_name"
    /\ LET x == BoundedString_decode(reader)
       IN  IF ~x.ok THEN DecFail
           ELSE /\ name' = x.val
                /\ reader' = x.rest
                /\ rlog' = Append(rlog, Consumed("name", reader, x.rest))
                /\ IF BitAnd(flags, 3) = 1
                   THEN Node_decode_return(Literal(x.val))
                   ELSE /\ pc' = "dec_parser"
                        /\ UNCHANGED result
                /\ UNCHANGED <<flags, redirect_node, children, parser>>
    /\ UNCHANGED <<server, value, writer, wlog, input, obj>>

\* fault injection: a suggestions_type is read whatever bit 4 is
Node_decode_parser_always_suggestions ==
    /\ pc = "dec_parser"
    /\ LET x == Parser_decode(reader)
       IN  IF ~x.ok THEN DecFail
           ELSE /\ parser' = x.val
                /\ reader' = x.rest
                /\ rlog' = Append(rlog, Consumed("parser", reader, x.rest))
                /\ pc' = "dec_suggestions"
                /\ UNCHANGED <<flags, redirect_node, children, name, result>>
    /\ UNCHANGED <<server, value, writer, wlog, input, obj>>

\* lines 89-94: parser: Decode::decode(r)?, then the test of bit 4
Node_decode_parser ==
    /\ pc = "dec_parser"
    /\ LET x == Parser_decode(reader)
       IN  IF ~x.ok THEN DecFail
           ELSE /\ parser' = x.val
                /\ reader' = x.rest
                /\ rlog' = Append(rlog, Consumed("parser", reader, x.rest))
                /\ IF BitAnd(flags, 16) # 0
                   THEN /\ pc' = "dec_suggestions"
                        /\ UNCHANGED result
                   ELSE Node_decode_return(Argument(name, x.val, None))
                /\ UNCHANGED <<flags, redirect_node, children, name>>
    /\ UNCHANGED <<server, value, writer, wlog, input, obj>>

\* lines 90-91: suggestions_type: Decode::decode(r)?
Node_decode_suggestions ==
    /\ pc = "dec_suggestions"
    /\ LET x == Option_decode(Ident_decode(reader))
       IN  IF ~x.ok THEN DecFail
           ELSE /\ reader' = x.rest
                /\ rlog' = Append(rlog, Consumed("suggestions_type", reader, x.rest))
                /\ Node_decode_return(Argument(name, parser, x.val))
                /\ UNCHANGED <<flags, redirect_node, children, name, parser>>
    /\ UNCHANGED <<server, value, writer, wlog, input, obj>>

InitNode ==
    /\ pc = "enc_flags"
    /\ value \in Nodes
    /\ writer = <<>>
    /\ wlog = <<>>
    /\ input = <<>>
    /\ reader = <<>>
    /\ rlog = <<>>
    /\ flags = 0
    /\ redirect_node = None
    /\ children = <<>>
    /\ name = <<>>
    /\ parser = Nothing
    /\ obj = Nothing
    /\ ServerIdle
    /\ result = Nothing

NextNode ==
    \/ Node_encode_flags
    \/ Node_encode_children
    \/ Node_encode_redirect
    \/ Node_encode_data
    \/ Deliver
    \/ DeliverOtherFlags
    \/ Node_decode_flags
    \/ Node_decode_redirect
    \/ Node_decode_children
    \/ Node_decode_data
    \/ Node_decode_name
    \/ Node_decode_parser
    \/ Node_decode_suggestions

SpecNode == InitNode /\ [][NextNode]_vars

(***************************************************************************)
(* The range parsers on their own: encode a parser, decode the bytes; or   *)
(* decode bytes that did not come from encode.                             *)
(***************************************************************************)
F32s == {<<0, 0>>, <<16256, 0>>, <<49024, 1>>}
I32s == {<<0, 0>>, <<65535, 65535>>, <<32768, 0>>, <<1, 515>>}
I64s == {<<0, 0, 0, 0>>, <<32768, 0, 0, 0>>, <<1, 515, 1029, 1543>>}
Ranges(S) == [min : OptionOf(S), max : OptionOf(S)]
RangeParsers ==
    {[tag |-> "BrigadierFloat", v |-> x] : x \in Ranges(F32s)}
    \cup {[tag |-> "BrigadierInteger", v |-> x] : x \in Ranges(I32s)}
    \cup {[tag |-> "BrigadierLong", v |-> x] : x \in Ranges(I64s)}
RangeKinds == {"BrigadierFloat", "BrigadierInteger", "BrigadierLong"}
RawRangeInputs ==
    {<<f>> \o [i \in 1..n |-> 0] : f \in 0..7, n \in {0, 3, 4, 8, 9, 16}}

BrigadierFloat_encode_call ==
    /\ pc = "range_encode"
    /\ value.tag = "BrigadierFloat"
    /\ writer' = BrigadierFloat_encode(value.v)
    /\ pc' = "range_encoded"
    /\ UNCHANGED <<server, value, wlog, input, reader, rlog, flags, redirect_node, children, name, parser, obj, result>>

BrigadierInteger_encode_call ==
    /\ pc = "range_encode"
    /\ value.tag = "BrigadierInteger"
    /\ writer' = BrigadierInteger_encode(value.v)
    /\ pc' = "range_encoded"
    /\ UNCHANGED <<server, value, wlog, input, reader, rlog, flags, redirect_node, children, name, parser, obj, result>>

BrigadierLong_encode_call ==
    /\ pc = "range_encode"
    /\ value.tag = "BrigadierLong"
    /\ writer' = BrigadierLong_encode(value.v)
    /\ pc' = "range_encoded"
    /\ UNCHANGED <<server, value, wlog, input, reader, rlog, flags, redirect_node, children, name, parser, obj, result>>

Range_decode_call(tag, decoded) ==
    /\ pc \in {"range_encoded", "range_raw"}
    /\ value.tag = tag
    /\ input' = writer
    /\ result' = IF decoded.ok THEN Ret(decoded.val) ELSE Fail
    /\ reader' = IF decoded.ok THEN decoded.rest ELSE writer
    /\ pc' = IF pc = "range_encoded" THEN "range_decoded" ELSE "range_raw_decoded"
    /\ UNCHANGED <<server, value, writer, wlog, rlog, flags, redirect_node, children, name, parser, obj>>

BrigadierFloat_decode_call == Range_decode_call("BrigadierFloat", BrigadierFloat_decode(writer))
BrigadierInteger_decode_call == Range_decode_call("BrigadierInteger", BrigadierInteger_decode(writer))
BrigadierLong_decode_call == Range_decode_call("BrigadierLong", BrigadierLong_decode(writer))

InitRange ==
    /\ \/ /\ pc = "range_encode"
          /\ value \in RangeParsers
          /\ writer = <<>>
       \/ /\ pc = "range_raw"
          /\ value \in {[tag |-> k, v |-> Nothing] : k \in RangeKinds}
          /\ writer \in RawRangeInputs
    /\ wlog = <<>>
    /\ input = <<>>
    /\ reader = <<>>
    /\ rlog = <<>>
    /\ flags = 0
    /\ redirect_node = None
    /\ children = <<>>
    /\ name = <<>>
    /\ parser = Nothing
    /\ obj = Nothing
    /\ ServerIdle
    /\ result = Nothing

NextRange ==
    \/ BrigadierFloat_encode_call
    \/ BrigadierInteger_encode_call
    \/ BrigadierLong_encode_call
    \/ BrigadierFloat_decode_call
    \/ BrigadierInteger_decode_call
    \/ BrigadierLong_decode_call

SpecRange == InitRange /\ [][NextRange]_vars

(***************************************************************************)
(* OptionalInt: src/entity/types.rs, lines 7-40.  The struct holds one     *)
(* u32.                                                                    *)
(***************************************************************************)
\* n + 1 and n - 1 on a u32
U32_add1(n) ==
    LET lo == n[2] + 1
    IN  <<(n[1] + lo \div 65536) % 65536, lo % 65536>>

U32_sub1(n) ==
    IF n[2] = 0 THEN <<(n[1] + 65535) % 65536, 65535>> ELSE <<n[1], n[2] - 1>>

\* fault injection: no arm for u32::MAX, the addition wraps
OptionalInt_new_wrapping(n) ==
    IF ~n.some THEN Some(<<0, 0>>)
    ELSE Some(U32_add1(n.v))

\* lines 13-19
OptionalInt_new(n) ==
    IF ~n.some THEN Some(<<0, 0>>)
    ELSE IF n.v = U32_MAX THEN None
    ELSE Some(U32_add1(n.v))

\* lines 21-23: self.0.checked_sub(1)
OptionalInt_get(self) ==
    IF self = <<0, 0>> THEN None ELSE Some(U32_sub1(self))

\* lines 27-29: VarInt(self.0 as i32).encode(w)
OptionalInt_encode(self) == VarInt_encode(self)

\* lines 37-39: Ok(Self(VarInt::decode(r)?.0 as u32))
OptionalInt_decode(r) == VarInt_decode(r)

U32s ==
    {<<hi, lo>> : hi \in {0, 1, 32767, 32768, 65535},
                  lo \in {0, 1, 127, 128, 65534, 65535}}

OptionalInt_new_call ==
    /\ pc = "opt_new"
    /\ result' = OptionalInt_new(value)
    /\ obj' = IF OptionalInt_new(value).some THEN OptionalInt_new(value).v ELSE Nothing
    /\ pc' = IF OptionalInt_new(value).some THEN "opt_made" ELSE "opt_none"
    /\ UNCHANGED <<server, value, writer, wlog, input, reader, rlog, flags, redirect_node, children, name, parser>>

OptionalInt_get_call ==
    /\ pc \in {"opt_made", "opt_decoded"}
    /\ result' = OptionalInt_get(obj)
    /\ pc' = IF pc = "opt_made" THEN "opt_got" ELSE "opt_end"
    /\ UNCHANGED <<server, value, writer, wlog, input, reader, rlog, flags, redirect_node, children, name, parser, obj>>

OptionalInt_encode_call ==
    /\ pc = "opt_got"
    /\ writer' = OptionalInt_encode(obj)
    /\ pc' = "opt_encoded"
    /\ UNCHANGED <<server, value, wlog, input, reader, rlog, flags, redirect_node, children, name, parser, obj, result>>

OptionalInt_decode_call ==
    /\ pc = "opt_encoded"
    /\ input' = writer
    /\ LET x == OptionalInt_decode(writer)
       IN  /\ result' = IF x.ok THEN Ret(x.val) ELSE Fail
           /\ obj' = IF x.ok THEN x.val ELSE Nothing
           /\ reader' = IF x.ok THEN x.rest ELSE writer
           /\ pc' = IF x.ok THEN "opt_decoded" ELSE "opt_err"
    /\ UNCHANGED <<server, value, writer, wlog, rlog, flags, redirect_node, children, name, parser>>

InitOptionalInt ==
    /\ pc = "opt_new"
    /\ value \in OptionOf(U32s)
    /\ writer = <<>>
    /\ wlog = <<>>
    /\ input = <<>>
    /\ reader = <<>>
    /\ rlog = <<>>
    /\ flags = 0
    /\ redirect_node = None
    /\ children = <<>>
    /\ name = <<>>
    /\ parser = Nothing
    /\ obj = Nothing
    /\ ServerIdle
    /\ result = Nothing

NextOptionalInt ==
    \/ OptionalInt_new_call
    \/ OptionalInt_get_call
    \/ OptionalInt_encode_call
    \/ OptionalInt_decode_call

SpecOptionalInt == InitOptionalInt /\ [][NextOptionalInt]_vars

(***************************************************************************)
(* The closed enumerations and VillagerData: src/entity/types.rs, lines    *)
(* 67-331.  An enumeration is the sequence of its variants as declared.    *)
(***************************************************************************)
Facing == <<"Down", "Up", "North", "South", "West", "East">>
VillagerKind == <<"Desert", "Jungle", "Plains", "Savanna", "Snow", "Swamp", "Taiga">>
VillagerProfession ==
    <<"None", "Armorer", "Butcher", "Cartographer", "Cleric", "Farmer", "Fisherman",
      "Fletcher", "Leatherworker", "Librarian", "Mason", "Nitwit", "Shepherd",
      "Toolsmith", "Weaponsmith">>
Pose ==
    <<"Standing", "FallFlying", "Sleeping", "Swimming", "SpinAttack", "Sneaking",
      "LongJumping", "Dying", "Croaking", "UsingTongue", "Roaring", "Sniffing",
      "Emerging", "Digging">>
MainArm == <<"Left", "Right">>
BoatKind == <<"Oak", "Spruce", "Birch", "Jungle", "Acacia", "DarkOak">>
CatKind ==
    <<"Tabby", "Black", "Red", "Siamese", "BritishShorthair", "Calico", "Persian",
      "Ragdoll", "White", "Jellie", "AllBlack">>
FrogKind == <<"Temperate", "Warm", "Cold">>
PaintingKind ==
    <<"Kebab", "Aztec", "Alban", "Aztec2", "Bomb", "Plant", "Wasteland", "Pool",
      "Courbet", "Sea", "Sunset", "Creebet", "Wanderer", "Graham", "Match", "Bust",
      "Stage", "Void", "SkullAndRoses", "Wither", "Fighters", "Pointer", "Pigscene",
      "BurningSkull", "Skeleton", "Earth", "Wind", "Water", "Fire", "DonkeyKong">>
Particle == <<"EntityEffect">>

\* line 320: EntityEffect = 21
Particle_EntityEffect == 21

Variants(decl) == {decl[i] : i \in DOMAIN decl}
Position(decl, v) == CHOOSE i \in DOMAIN decl : decl[i] = v

\* `variant as i32` of an enumeration without explicit discriminants: the
\* variants count from zero in declaration order
Discriminant(decl, v) == Position(decl, v) - 1

\* fault injection: the explicit discriminant is dropped
Particle_discriminant_positional(v) == Position(Particle, v) - 1

\* `variant as i32` of Particle: an explicit discriminant starts the count
Particle_discriminant(v) == Particle_EntityEffect + (Position(Particle, v) - 1)

Facing_encode(self) == VarInt_encode(FromUsize(Discriminant(Facing, self)))
Pose_encode(self) == VarInt_encode(FromUsize(Discriminant(Pose, self)))
MainArm_encode(self) == u8_encode(Discriminant(MainArm, self))
BoatKind_encode(self) == VarInt_encode(FromUsize(Discriminant(BoatKind, self)))
CatKind_encode(self) == VarInt_encode(FromUsize(Discriminant(CatKind, self)))
FrogKind_encode(self) == VarInt_encode(FromUsize(Discriminant(FrogKind, self)))
PaintingKind_encode(self) == VarInt_encode(FromUsize(Discriminant(PaintingKind, self)))
Particle_encode(self) == VarInt_encode(FromUsize(Particle_discriminant(self)))

\* lines 115-119
VillagerData_encode(self) ==
    VarInt_encode(FromUsize(Discriminant(VillagerKind, self.kind)))
    \o VarInt_encode(FromUsize(Discriminant(VillagerProfession, self.profession)))
    \o VarInt_encode(self.level)

Levels == {FromUsize(n) : n \in 0..MaxLevel} \cup {<<65535, 65535>>}

EnumValue(e, v) == [enum |-> e, variant |-> v]
EnumValues ==
    {EnumValue("Facing", v) : v \in Variants(Facing)}
    \cup {EnumValue("Pose", v) : v \in Variants(Pose)}
    \cup {EnumValue("MainArm", v) : v \in Variants(MainArm)}
    \cup {EnumValue("BoatKind", v) : v \in Variants(BoatKind)}
    \cup {EnumValue("CatKind", v) : v \in Variants(CatKind)}
    \cup {EnumValue("FrogKind", v) : v \in Variants(FrogKind)}
    \cup {EnumValue("PaintingKind", v) : v \in Variants(PaintingKind)}
    \cup {EnumValue("Particle", v) : v \in Variants(Particle)}
    \cup {EnumValue("VillagerData", [kind |-> k, profession |-> p, level |-> l]) :
            k \in Variants(VillagerKind), p \in Variants(VillagerProfession), l \in Levels}

Enum_encode_call(e, bytes) ==
    /\ pc = "enum_encode"
    /\ value.enum = e
    /\ writer' = bytes
    /\ pc' = "enum_encoded"
    /\ UNCHANGED <<server, value, wlog, input, reader, rlog, flags, redirect_node, children, name, parser, obj, result>>

Facing_encode_call == Enum_encode_call("Facing", Facing_encode(value.variant))
Pose_encode_call == Enum_encode_call("Pose", Pose_encode(value.variant))
MainArm_encode_call == Enum_encode_call("MainArm", MainArm_encode(value.variant))
BoatKind_encode_call == Enum_encode_call("BoatKind", BoatKind_encode(value.variant))
CatKind_encode_call == Enum_encode_call("CatKind", CatKind_encode(value.variant))
FrogKind_encode_call == Enum_encode_call("FrogKind", FrogKind_encode(value.variant))
PaintingKind_encode_call == Enum_encode_call("PaintingKind", PaintingKind_encode(value.variant))
Particle_encode_call == Enum_encode_call("Particle", Particle_encode(value.variant))
VillagerData_encode_call == Enum_encode_call("VillagerData", VillagerData_encode(value.variant))

InitEnum ==
    /\ pc = "enum_encode"
    /\ value \in EnumValues
    /\ writer = <<>>
    /\ wlog = <<>>
    /\ input = <<>>
    /\ reader = <<>>
    /\ rlog = <<>>
    /\ flags = 0
    /\ redirect_node = None
    /\ children = <<>>
    /\ name = <<>>
    /\ parser = Nothing
    /\ obj = Nothing
    /\ ServerIdle
    /\ result = Nothing

NextEnum ==
    \/ Facing_encode_call
    \/ Pose_encode_call
    \/ MainArm_encode_call
    \/ BoatKind_encode_call
    \/ CatKind_encode_call
    \/ FrogKind_encode_call
    \/ PaintingKind_encode_call
    \/ Particle_encode_call
    \/ VillagerData_encode_call

SpecEnum == InitEnum /\ [][NextEnum]_vars

(***************************************************************************)
(* The herobrine example (examples/herobrine.rs): the player counter of    *)
(* Game::update.  A UUID is a number; an entity is identified by the UUID  *)
(* it was inserted with, so server.entities is the set of UUIDs in use and *)
(* an EntityId is such a UUID or NULL.  Between two updates the server     *)
(* accepts connections and peers close theirs; update then runs the        *)
(* retain closure over every client in slot order.                         *)
(***************************************************************************)
MAX_PLAYERS == 10

\* uuid!("f84c6a79-0a4e-45e0-879b-cd49ebd4c4e2")
HerobrineUuid == 0

\* EntityId::NULL, the Default of ClientState.entity_id
NULL == -1

\* a client as the server hands it to the first update after the login
NewClient(uuid) ==
    [uuid |-> uuid, created_this_tick |-> TRUE, is_disconnected |-> FALSE,
     entity_id |-> NULL]

\* fetch_update(|count| (count < MAX_PLAYERS).then_some(count + 1))
fetch_update(count) ==
    IF count < MAX_PLAYERS THEN Ret(count + 1) ELSE Fail

\* entities.insert_with_uuid: None when the UUID already has an entity
insert_with_uuid(ents, uuid) ==
    IF uuid \in ents THEN None ELSE Some(uuid)

\* The closure of server.clients.retain, applied to one client: what it
\* returns (keep), and the client, the counter and the entities it leaves.
\* fetch_sub wraps at 0; the counter is positive wherever it is reached.
retain_client(client, count, ents) ==
    LET admitted == fetch_update(count)
        inserted == insert_with_uuid(ents, client.uuid)
        created  == client.created_this_tick
        c1 == IF created THEN admitted.val ELSE count
        e1 == IF created THEN ents \cup {client.uuid} ELSE ents
        id == IF created THEN inserted.v ELSE client.entity_id
    IN  IF created /\ ~admitted.ok
        THEN [keep |-> FALSE, client |-> client,
              player_count |-> count, entities |-> ents]
        ELSE IF created /\ ~inserted.some
        THEN [keep |-> FALSE, client |-> client,
              player_count |-> admitted.val, entities |-> ents]
        ELSE IF client.is_disconnected
        THEN [keep |-> FALSE, client |-> client,
              player_count |-> c1 - 1, entities |-> e1 \ {id}]
        ELSE [keep |-> TRUE, client |-> [client EXCEPT !.entity_id = id],
              player_count |-> c1, entities |-> e1]

\* server.clients.retain(..): the closure over the clients cs in order
RECURSIVE retain(_, _, _)
retain(cs, count, ents) ==
    IF cs = <<>>
    THEN [clients |-> <<>>, player_count |-> count, entities |-> ents]
    ELSE LET step == retain_client(Head(cs), count, ents)
             rest == retain(Tail(cs), step.player_count, step.entities)
         IN  [rest EXCEPT !.clients =
                 IF step.keep THEN <<step.client>> \o rest.clients
                 ELSE rest.clients]

\* the end of the tick: no retained client is new any more
EndTick(cs) ==
    [i \in 1..Len(cs) |-> [cs[i] EXCEPT !.created_this_tick = FALSE]]

\* Game::update
update ==
    LET after == retain(clients, player_count, entities)
    IN  /\ pc' = "updated"
        /\ clients' = EndTick(after.clients)
        /\ player_count' = after.player_count
        /\ entities' = after.entities
        /\ UNCHANGED <<codec, joined, left>>

\* the clients that no update has seen yet
NewClients == {i \in 1..Len(clients) : clients[i].created_this_tick}

\* the UUIDs that an entity or a connected client carries
UuidsInUse == entities \cup {clients[i].uuid : i \in 1..Len(clients)}

\* a UUID that nobody carries: UUIDs are opaque, so the least one stands
\* for all of them
FreshUuid ==
    CHOOSE uuid \in 1..(MaxJoins + 1) :
        /\ uuid \notin UuidsInUse
        /\ \A other \in 1..(uuid - 1) : other \in UuidsInUse

\* The UUIDs a login can carry: a fresh one, Herobrine's, or that of the
\* client in the first slot (a second login of the same account).
LoginUuids ==
    {FreshUuid, HerobrineUuid}
        \cup (IF clients = <<>> THEN {} ELSE {clients[1].uuid})

\* the server accepts a connection
Join ==
    /\ joined < MaxJoins
    /\ Cardinality(NewClients) < MaxNew
    /\ \E uuid \in LoginUuids :
           clients' = Append(clients, NewClient(uuid))
    /\ joined' = joined + 1
    /\ pc' = "running"
    /\ UNCHANGED <<codec, player_count, entities, left>>

\* a peer closes its connection
Leave ==
    /\ left < MaxLeaves
    /\ \E i \in 1..Len(clients) :
           /\ ~clients[i].is_disconnected
           /\ clients' = [clients EXCEPT ![i].is_disconnected = TRUE]
    /\ left' = left + 1
    /\ pc' = "running"
    /\ UNCHANGED <<codec, player_count, entities, joined>>

\* the state after Game::init: only Herobrine has an entity
InitHerobrine ==
    /\ pc = "init"
    /\ value = Nothing
    /\ writer = <<>>
    /\ wlog = <<>>
    /\ input = <<>>
    /\ reader = <<>>
    /\ rlog = <<>>
    /\ flags = 0
    /\ redirect_node = None
    /\ children = <<>>
    /\ name = <<>>
    /\ parser = Nothing
    /\ obj = Nothing
    /\ result = Nothing
    /\ player_count = 0
    /\ clients = <<>>
    /\ entities = {HerobrineUuid}
    /\ joined = 0
    /\ left = 0

NextHerobrine == Join \/ Leave \/ update

SpecHerobrine == InitHerobrine /\ [][NextHerobrine]_vars

(***************************************************************************)
(* Properties.                                                             *)
(***************************************************************************)
DecodePositions ==
    {"dec_redirect", "dec_children", "dec_data", "dec_name", "dec_parser",
     "dec_suggestions", "dec_ok", "dec_err"}
Bit(f, k) == (f \div (2 ^ k)) % 2
FieldsOf(log) == [i \in 1..Len(log) |-> log[i].field]
RECURSIVE SumN(_)
SumN(log) == IF log = <<>> THEN 0 ELSE Head(log).n + SumN(Tail(log))
IsPrefix(a, b) == Len(a) <= Len(b) /\ SubSeq(b, 1, Len(a)) = a
BigEndian(x) ==
    [k \in 1..(2 * Len(x)) |->
        IF k % 2 = 1 THEN x[(k + 1) \div 2] \div 256 ELSE x[k \div 2] % 256]

\* C1: decoding exactly the bytes Node::encode produced succeeds, consumes
\* all of them and returns a Node equal to the encoded one.
C1_NodeRoundTrip ==
    (pc \in {"dec_ok", "dec_err"} /\ input = writer)
        => (pc = "dec_ok" /\ reader = <<>> /\ result = Ret(value))

\* C2: Node::encode writes the flags byte, then the children (VarInt count,
\* then the indices), then the redirect index iff present, then the variant
\* payload (Root: nothing; Literal: name; Argument: name, parser, then
\* suggestions_type iff present); the Literal "say" without children,
\* redirect or the executable flag is written as 01 00 03 's' 'a' 'y'.
C2_PayloadFields(data) ==
    CASE data.tag = "Root" -> <<>>
      [] data.tag = "Literal" -> <<"name">>
      [] data.tag = "Argument" ->
            <<"name", "parser">>
            \o (IF data.suggestions_type.some THEN <<"suggestions_type">> ELSE <<>>)

C2_Fields(node) ==
    <<"flags", "children">>
    \o (IF node.redirect_node.some THEN <<"redirect_node">> ELSE <<>>)
    \o C2_PayloadFields(node.data)

C2_EncodeOrder ==
    /\ pc \in {"enc_flags", "enc_children", "enc_redirect", "enc_data", "enc_done"}
          => /\ writer = LogBytes(wlog)
             /\ IsPrefix(FieldsOf(wlog), C2_Fields(value))
    /\ pc = "enc_done"
          => /\ FieldsOf(wlog) = C2_Fields(value)
             /\ Len(wlog[1].bytes) = 1
             /\ wlog[2].bytes =
                    VarInt_encode(<<0, Len(value.children)>>)
                    \o Concat([i \in 1..Len(value.children) |->
                                  VarInt_encode(value.children[i])])
             /\ value.redirect_node.some
                    => wlog[3].bytes = VarInt_encode(value.redirect_node.v)
             /\ value = Node(<<>>, Literal(Say), FALSE, None)
                    => writer = <<1, 0, 3, 115, 97, 121>>

C2_Witness ==
    /\ pc = "enc_done"
    /\ value.data.tag = "Argument"
    /\ value.data.suggestions_type.some
    /\ value.redirect_node.some
    /\ Len(value.children) = 2
    /\ Len(wlog) = 6

C2_SayWitness ==
    /\ pc = "enc_done"
    /\ value = Node(<<>>, Literal(Say), FALSE, None)
    /\ writer = <<1, 0, 3, 115, 97, 121>>

\* C3: in the flags byte Node::encode writes, bits 0-1 are the variant tag
\* (Root 0, Literal 1, Argument 2, never 3), bit 2 is is_executable, bit 3
\* is the presence of redirect_node, bit 4 is set exactly for an Argument
\* with a suggestions_type, and bits 5-7 are clear.
C3_FlagsByte ==
    pc \in {"enc_children", "enc_redirect", "enc_data", "enc_done"}
        => LET f == writer[1]
           IN  /\ f % 4 = (CASE value.data.tag = "Root" -> 0
                             [] value.data.tag = "Literal" -> 1
                             [] value.data.tag = "Argument" -> 2)
               /\ f % 4 # 3
               /\ (Bit(f, 2) = 1) <=> value.is_executable
               /\ (Bit(f, 3) = 1) <=> value.redirect_node.some
               /\ (Bit(f, 4) = 1) <=> (/\ value.data.tag = "Argument"
                                       /\ value.data.suggestions_type.some)
               /\ f \div 32 = 0

C3_Witness ==
    /\ pc = "enc_done"
    /\ value.data.tag = "Argument"
    /\ value.data.suggestions_type.some
    /\ value.is_executable
    /\ ~value.redirect_node.some
    /\ writer[1] = 22

\* C4: when Node::decode accepts its input: under a Root or Literal tag the
\* result carries no suggestions_type and none is read, whatever bit 4 is;
\* under the Argument tag with bit 4 clear suggestions_type is None and no
\* byte is read for it; with bit 3 clear redirect_node is None and no byte
\* is read for it.  Every byte consumed belongs to a field that was read.
C4_AbsentFields ==
    pc = "dec_ok"
        => LET f == input[1]
               read == {rlog[i].field : i \in 1..Len(rlog)}
               node == result.val
           IN  /\ Len(input) - Len(reader) = SumN(rlog)
               /\ f % 4 \in {0, 1}
                     => /\ "suggestions_type" \notin read
                        /\ "suggestions_type" \notin DOMAIN node.data
                        /\ node.data.tag \in {"Root", "Literal"}
               /\ (f % 4 = 2 /\ Bit(f, 4) = 0)
                     => /\ "suggestions_type" \notin read
                        /\ node.data.suggestions_type = None
               /\ Bit(f, 3) = 0
                     => /\ "redirect_node" \notin read
                        /\ node.redirect_node = None

C4_Witness ==
    /\ pc = "dec_ok"
    /\ input[1] % 4 = 1
    /\ Bit(input[1], 4) = 1
    /\ Bit(input[1], 3) = 0
    /\ result.val.data.tag = "Literal"

C4_ArgumentWitness ==
    /\ pc = "dec_ok"
    /\ input[1] % 4 = 2
    /\ Bit(input[1], 4) = 0
    /\ result.val.data.suggestions_type = None
    /\ reader # <<>>

\* C5: an input whose flags byte has bits 0-1 equal to 3 is never accepted:
\* whatever the other bits and the bytes that follow, Node::decode returns
\* an error and no Node.
C5_InvalidVariant ==
    /\ []((/\ pc \in DecodePositions
            /\ input # <<>>
            /\ input[1] % 4 = 3)
               => (pc # "dec_ok" /\ result \in {Nothing, Fail}))
    /\ [][(pc = "dec_data" /\ flags % 4 = 3)
             => (pc' = "dec_err" /\ result' = Fail)]_vars

C5_Witness ==
    /\ pc = "dec_err"
    /\ input[1] % 4 = 3
    /\ Len(rlog) >= 2
    /\ rlog[Len(rlog)].field = "children"
    /\ result = Fail

\* C6: for BrigadierFloat, BrigadierInteger and BrigadierLong and every
\* combination of present and absent bounds, decode of the bytes encode
\* produced returns the same min and max and consumes exactly those bytes;
\* the bytes 01 00 00 00 00 decode as a BrigadierInteger with min = Some(0)
\* and max = None.
C6_RangeRoundTrip ==
    /\ pc = "range_decoded"
          => (result = Ret(value.v) /\ reader = <<>> /\ input = writer)
    /\ (/\ pc = "range_raw_decoded"
        /\ value.tag = "BrigadierInteger"
        /\ input = <<1, 0, 0, 0, 0>>)
          => (result = Ret([min |-> Some(<<0, 0>>), max |-> None]) /\ reader = <<>>)

C6_Witness ==
    /\ pc = "range_decoded"
    /\ value.tag = "BrigadierLong"
    /\ value.v.min.some
    /\ value.v.max.some
    /\ value.v.min.v # value.v.max.v
    /\ result = Ret(value.v)

C6_ScenarioWitness ==
    /\ pc = "range_raw_decoded"
    /\ value.tag = "BrigadierInteger"
    /\ input = <<1, 0, 0, 0, 0>>
    /\ result = Ret([min |-> Some(<<0, 0>>), max |-> None])

\* C7: a range parser is written as a flags byte equal to (1 if min is
\* present) + (2 if max is present), then the fixed-width big-endian min
\* iff present, then the fixed-width max iff present: 1 + width * (number
\* of present bounds) bytes, the width being 4 for BrigadierFloat and
\* BrigadierInteger and 8 for BrigadierLong.
C7_Width == IF value.tag = "BrigadierLong" THEN 8 ELSE 4

C7_RangeEncoding ==
    pc = "range_encoded"
        => LET min == value.v.min
               max == value.v.max
               nmin == IF min.some THEN 1 ELSE 0
               nmax == IF max.some THEN 1 ELSE 0
           IN  /\ writer[1] = nmin + 2 * nmax
               /\ writer[1] \div 4 = 0
               /\ Len(writer) = 1 + C7_Width * (nmin + nmax)
               /\ min.some => SubSeq(writer, 2, 1 + C7_Width) = BigEndian(min.v)
               /\ max.some => SubSeq(writer, 2 + C7_Width * nmin, Len(writer))
                                  = BigEndian(max.v)

C7_Witness ==
    /\ pc = "range_encoded"
    /\ value.tag = "BrigadierFloat"
    /\ value.v.min.some
    /\ value.v.max.some
    /\ value.v.min.v # value.v.max.v
    /\ Len(writer) = 9

\* C8: OptionalInt::new(x) returns no value iff x = Some(u32::MAX);
\* otherwise the stored u32 is 0 for None and v + 1, without wrap-around,
\* for Some(v), and get() returns x; new(None) is written as VarInt 0 and
\* new(Some(0)) as VarInt 1.
C8_IsSuccessor(v, n) ==
    \/ n[1] = v[1] /\ n[2] = v[2] + 1
    \/ n[1] = v[1] + 1 /\ n[2] = 0 /\ v[2] = 65535

C8_OptionalInt ==
    /\ pc # "opt_new" => ((pc = "opt_none") <=> (value = Some(U32_MAX)))
    /\ pc = "opt_none" => result = None
    /\ pc = "opt_made"
          => /\ result = Some(obj)
             /\ ~value.some => obj = <<0, 0>>
             /\ value.some => C8_IsSuccessor(value.v, obj)
    /\ pc = "opt_got" => result = value
    /\ pc = "opt_encoded"
          => /\ value = None => writer = <<0>>
             /\ value = Some(<<0, 0>>) => writer = <<1>>

C8_Witness ==
    /\ pc = "opt_got"
    /\ value = Some(<<65535, 65534>>)
    /\ obj = U32_MAX
    /\ result = value

C8_NoneWitness == pc = "opt_none" /\ value = Some(U32_MAX)

C8_EncodedWitness == pc = "opt_encoded" /\ value = Some(<<0, 0>>) /\ writer = <<1>>

\* C9 as stated: every enumeration with an encoder, Particle included, is
\* written as the VarInt of the variant's zero-based position in the
\* declaration; MainArm as that position in one raw byte; VillagerData as
\* the positions of kind and profession, then the level.
C9_Declaration(e) ==
    CASE e = "Facing" -> Facing
      [] e = "Pose" -> Pose
      [] e = "MainArm" -> MainArm
      [] e = "BoatKind" -> BoatKind
      [] e = "CatKind" -> CatKind
      [] e = "FrogKind" -> FrogKind
      [] e = "PaintingKind" -> PaintingKind
      [] e = "Particle" -> Particle

C9_Index(decl, v) == Cardinality({i \in DOMAIN decl : i < Position(decl, v)})

C9_Others ==
    /\ (pc = "enum_encoded" /\ value.enum = "MainArm")
          => writer = <<C9_Index(MainArm, value.variant)>>
    /\ (pc = "enum_encoded" /\ value.enum = "VillagerData")
          => writer = VarInt_encode(<<0, C9_Index(VillagerKind, value.variant.kind)>>)
                      \o VarInt_encode(<<0, C9_Index(VillagerProfession,
                                                     value.variant.profession)>>)
                      \o VarInt_encode(value.variant.level)
    /\ (pc = "enum_encoded" /\ value.enum \notin {"MainArm", "VillagerData", "Particle"})
          => writer = VarInt_encode(<<0, C9_Index(C9_Declaration(value.enum),
                                                  value.variant)>>)

C9_OrdinalEncoding ==
    /\ C9_Others
    /\ (pc = "enum_encoded" /\ value.enum = "Particle")
          => writer = VarInt_encode(<<0, C9_Index(Particle, value.variant)>>)

\* C9 amended: as stated for every enumeration but Particle, whose only
\* variant EntityEffect is written as the VarInt of its explicit
\* discriminant 21, not of its position 0.
C9_DiscriminantEncoding ==
    /\ C9_Others
    /\ (pc = "enum_encoded" /\ value.enum = "Particle")
          => (value.variant = "EntityEffect" /\ writer = <<21>>)

C9_Witness ==
    /\ pc = "enum_encoded"
    /\ value.enum = "Particle"
    /\ value.variant = "EntityEffect"
    /\ writer = <<21>>

C9_LastVariantWitness ==
    /\ pc = "enum_encoded"
    /\ value.enum = "PaintingKind"
    /\ value.variant = "DonkeyKong"
    /\ writer = <<29>>

\* C10: Node::decode reads the flags byte, then the redirect index iff bit
\* 3 of the flags is set, then the children, then the variant payload
\* (Literal: name; Argument: name, parser, then suggestions_type iff bit 4
\* is set): the fields read are decided by the flags byte alone.
C10_Fields(f) ==
    <<"flags">>
    \o (IF Bit(f, 3) = 1 THEN <<"redirect_node">> ELSE <<>>)
    \o <<"children">>
    \o (CASE f % 4 = 0 -> <<>>
          [] f % 4 = 1 -> <<"name">>
          [] f % 4 = 2 -> <<"name", "parser">>
                          \o (IF Bit(f, 4) = 1 THEN <<"suggestions_type">> ELSE <<>>)
          [] OTHER -> <<>>)

C10_DecodeOrder ==
    /\ (pc \in DecodePositions /\ input # <<>>)
          => IsPrefix(FieldsOf(rlog), C10_Fields(input[1]))
    /\ pc = "dec_children"
          => Len(rlog) = 1 + Bit(input[1], 3)
    /\ pc \in {"dec_data", "dec_name"}
          => Len(rlog) = 2 + Bit(input[1], 3)
    /\ pc = "dec_parser"
          => Len(rlog) = 3 + Bit(input[1], 3)
    /\ pc = "dec_suggestions"
          => Len(rlog) = 4 + Bit(input[1], 3)
    /\ pc = "dec_ok"
          => /\ FieldsOf(rlog) = C10_Fields(input[1])
             /\ Len(input) - Len(reader) = SumN(rlog)

C10_Witness ==
    /\ pc = "dec_ok"
    /\ FieldsOf(rlog) = <<"flags", "redirect_node", "children", "name", "parser",
                          "suggestions_type">>
    /\ Len(children) > 0

\* C11: at the end of every update player_count is the number of clients
\* retained in server.clients, and it does not exceed MAX_PLAYERS.
C11_PlayerCount ==
    pc = "updated" =>
        /\ player_count = Len(clients)
        /\ player_count <= MAX_PLAYERS

====
